---- MODULE Spec2Model ----
(***************************************************************************)
(* The tunnel lifecycle of forwardingtool: App.on_start, check_connection, *)
(* on_disconnect and on_close (views.py), connector.load_key and           *)
(* connector.connect (connector.py), and the Config construction they rest *)
(* on (widgets.py, config.py).                                             *)
(*                                                                         *)
(* paramiko, keyring and sshtunnel are external packages.  Their calls are *)
(* modelled by the outcomes they produce for an environment the action     *)
(* draws: the kind of key file, the keyring backend, the answers typed in  *)
(* the password dialog, whether the jump host accepts the session, and the *)
(* local ports another process already holds.                              *)
(***************************************************************************)
EXTENDS Integers, Sequences, FiniteSets, TLC

\* Bounds of the model.
MaxFwd == 2
MaxForwarders == 2
MaxPending == 1
MaxHostLen == 9

\* load_key with a loop of one round more.
OneAttemptMore == 3 + 1

\* connector.py:38, for _ in range(3)
MaxAttempts == 3

\* Local ports: as many as a list can hold.
Ports == 1..MaxFwd
\* App.connection is None
None == 0

Range(s) == {s[i] : i \in 1..Len(s)}

VARIABLES
    keyattr,     \* the name under which the Config dataclass declares the key file
    keyring,     \* the secret stored for (APP, keyfile): "none", "right" or "wrong"
    connection,  \* App.connection: None or the index of a forwarder in fwds
    fwds,        \* every SSHTunnelForwarder connector.connect has created
    button,      \* the command bound to App.startbutton
    polls,       \* pending after(100, check_connection) callbacks
    destroyed,   \* App.destroy() has run
    modal,       \* the blocking dialog a handler is waiting in
    pending,     \* the on_start calls waiting in PasswordDialog.ask, innermost last:
                 \* what each has done so far
    last         \* the last handler run: what it was given, showed and called

vars ==
    <<keyattr, keyring, connection, fwds, button, polls, destroyed, modal, pending,
      last>>

\* The local ports the listeners of the application's own forwarders hold.
Held == UNION {fwds[f].listeners : f \in 1..Len(fwds)}

\* Two ports that differ in name only: both free, or both held by the listeners
\* of one forwarder.
Alike(p, q) ==
    \/ p \notin Held /\ q \notin Held
    \/ \E f \in 1..Len(fwds) : {p, q} \subseteq fwds[f].listeners

\* The ordered local ports of ForwardTreeView.get(), duplicates included.  Of
\* the ports that differ in name only a list uses the lowest, in the order of
\* their first occurrence.
FwdLists ==
    {f \in UNION {[1..n -> Ports] : n \in 0..MaxFwd} :
        \A i \in 1..Len(f) : \A p \in Ports :
            (Alike(p, f[i]) /\ p < f[i]) => \E j \in 1..(i - 1) : f[j] = p}

(***************************************************************************)
(* Config construction: widgets.BaseView.get calls the MODEL dataclass     *)
(* with the names of FIELDSPEC as keywords; a dataclass rejects a keyword  *)
(* it does not declare with TypeError.                                     *)
(***************************************************************************)
ConfigFields == {"jump_host", "username", "jump_port", keyattr, "forwardings"}

FIELDSPEC == {"jump_host", "username", "jump_port", "pubkey"}

BaseView_get == IF FIELDSPEC \subseteq ConfigFields THEN "cfg" ELSE "TypeError"

\* App.get: "None" after a widget error was shown, an exception name, or "cfg".
App_get(errs, valid) ==
    IF errs THEN "None"
    ELSE IF BaseView_get = "TypeError" THEN "TypeError"
    ELSE IF ~valid THEN "ValueError"
    ELSE "cfg"

(***************************************************************************)
(* connector.load_key                                                      *)
(***************************************************************************)
\* A parser that asks for a password where it cannot read the key file.
from_private_key_file_lenient(kind, pwd) ==
    IF kind = "plain" THEN "key"
    ELSE IF pwd = "none" THEN "PasswordRequiredException"
    ELSE IF pwd = "right" /\ kind = "encrypted" THEN "key"
    ELSE "SSHException"

\* paramiko.RSAKey.from_private_key_file(keyfile, password=pwd)
from_private_key_file(kind, pwd) ==
    IF kind = "plain" THEN "key"
    ELSE IF kind = "malformed" THEN "SSHException"
    ELSE IF pwd = "none" THEN "PasswordRequiredException"
    ELSE IF pwd = "right" THEN "key"
    ELSE "SSHException"

\* keyring.get_password(APP, keyfile)
get_password(backend, stored) ==
    IF backend = "none" THEN "NoKeyringError"
    ELSE IF backend = "locked" THEN "KeyringLocked"
    ELSE stored

\* A keyring that stores nothing.
set_password_unavailable(backend) == "NoKeyringError"

\* keyring.set_password(APP, keyfile, pwd)
set_password(backend) ==
    IF backend = "none" THEN "NoKeyringError"
    ELSE IF backend = "locked" THEN "KeyringLocked"
    ELSE IF backend = "seterr" THEN "PasswordSetError"
    ELSE "ok"

KeyResult(key, exc, stored, steps) ==
    [key |-> key, exc |-> exc, stored |-> stored, steps |-> steps]

\* load_key without its test of pwdialog.aborted.
never_aborted(answer) == FALSE

\* connector.py:41, pwdialog.aborted after ask(): the dialog was cancelled or
\* closed.
aborted(answer) == answer = "abort"

\* The for loop of load_key from its i-th round on.
RECURSIVE PromptLoop(_, _, _, _, _)
PromptLoop(i, kind, backend, stored, script) ==
    IF i > MaxAttempts THEN KeyResult(FALSE, FALSE, stored, <<>>)
    ELSE IF aborted(script[i]) THEN KeyResult(FALSE, FALSE, stored, <<"prompt">>)
    ELSE IF from_private_key_file(kind, script[i]) # "key"
    THEN LET r == PromptLoop(i + 1, kind, backend, stored, script)
         IN  [r EXCEPT !.steps = <<"prompt", "key:decrypt">> \o @]
    ELSE LET s == set_password(backend)
             did == <<"prompt", "key:decrypt", "keyring:set">>
         IN  IF s = "ok" THEN KeyResult(TRUE, FALSE, script[i], did)
             ELSE IF s \in {"NoKeyringError", "KeyringLocked"}
             THEN KeyResult(TRUE, FALSE, stored, did)
             ELSE KeyResult(FALSE, TRUE, stored, did)

\* load_key taking whatever the keyring returns for the passphrase.
CacheDecrypts_unchecked(kind, backend, stored) ==
    get_password(backend, stored) \notin {"NoKeyringError", "KeyringLocked", "none"}

\* connector.py:34-35, the secret of the keyring decrypts the key file.
CacheDecrypts(kind, backend, stored) ==
    /\ get_password(backend, stored) \notin {"NoKeyringError", "KeyringLocked"}
    /\ from_private_key_file(kind, get_password(backend, stored)) = "key"

\* connector.py:29-35, load_key of an encrypted key file up to its loop.
CacheSteps(backend, stored) ==
    IF get_password(backend, stored) \in {"NoKeyringError", "KeyringLocked"}
    THEN <<"key:parse", "keyring:get">>
    ELSE <<"key:parse", "keyring:get", "key:decrypt">>

load_key(kind, backend, stored, script) ==
    LET first == from_private_key_file(kind, "none")
    IN  IF first = "key" THEN KeyResult(TRUE, FALSE, stored, <<"key:parse">>)
        ELSE IF first = "SSHException"
        THEN KeyResult(FALSE, FALSE, stored, <<"key:parse">>)
        ELSE IF CacheDecrypts(kind, backend, stored)
        THEN KeyResult(TRUE, FALSE, stored, CacheSteps(backend, stored))
        ELSE LET loop == PromptLoop(1, kind, backend, stored, script)
             IN  [loop EXCEPT !.steps = CacheSteps(backend, stored) \o @]

(***************************************************************************)
(* sshtunnel.SSHTunnelForwarder as connector.connect drives it             *)
(***************************************************************************)
\* started: t.start() returned without raising.
NewForwarder ==
    [transport |-> FALSE, listeners |-> {}, alive |-> FALSE, started |-> FALSE,
     stops |-> 0]

\* One entry per forwarding, in order: whether its local listener was bound.
BindSteps(fwd, busy) ==
    [i \in 1..Len(fwd) |->
        IF fwd[i] \notin busy /\ \A j \in 1..(i - 1) : fwd[j] # fwd[i]
        THEN "bind:ok" ELSE "bind:fail"]

\* t.start(): the session to the jump host, then one listener per forwarding.
Forwarder_start(fwd, gw, busy) ==
    IF ~gw
    THEN [exc |-> "tunnel", created |-> TRUE, fw |-> NewForwarder,
          steps |-> <<"transport:connect">>]
    ELSE LET bound == Range(fwd) \ busy
             did == <<"transport:connect">> \o BindSteps(fwd, busy)
         IN  IF bound = {}
             THEN [exc |-> "tunnel", created |-> TRUE,
                   fw |-> [NewForwarder EXCEPT !.transport = TRUE],
                   steps |-> did]
             ELSE [exc |-> "none", created |-> TRUE,
                   fw |-> [transport |-> TRUE, listeners |-> bound,
                           alive |-> TRUE, started |-> TRUE, stops |-> 0],
                   steps |-> did]

\* t.stop()
Forwarder_stop(fw) ==
    [fw EXCEPT !.transport = FALSE, !.listeners = {}, !.alive = FALSE,
               !.stops = @ + 1]

\* connector.connect(cfg, key)
connect(fwd, gw, busy) ==
    IF fwd = <<>>
    THEN [exc |-> "ValueError", created |-> FALSE, fw |-> NewForwarder,
          steps |-> <<"tunnel:open">>]
    ELSE LET s == Forwarder_start(fwd, gw, busy)
         IN  [s EXCEPT !.steps = <<"tunnel:open">> \o @]

(***************************************************************************)
(* What an on_start is given: the state of the entry widgets, the key file *)
(* and keyring, the answers typed in the PasswordDialogs, the forwardings  *)
(* of the tree view, and the network.  A part the handler does not get to  *)
(* is left at its default.  An on_start that waits for the password has    *)
(* read the configuration already, but consults its forwardings, like the  *)
(* answers and the network, only when load_key returns: they are drawn     *)
(* then.                                                                   *)
(***************************************************************************)
Backends == {"ok", "none", "locked", "seterr"}

\* The answers typed until the loop of load_key ends.
Scripts ==
    {<<"right">>, <<"abort">>, <<"wrong", "right">>, <<"wrong", "abort">>,
     <<"wrong", "wrong", "right">>, <<"wrong", "wrong", "abort">>,
     <<"wrong", "wrong", "wrong">>}

KeyInput(kind, backend, script) ==
    [kind |-> kind, backend |-> backend, script |-> script]

NoKeyInput == KeyInput("plain", "ok", <<>>)

\* The key files an on_start is called with: plain, malformed, and encrypted
\* with and without a keyring backend.
StartKeys ==
    {NoKeyInput,
     KeyInput("malformed", "ok", <<>>),
     KeyInput("encrypted", "ok", <<>>),
     KeyInput("encrypted", "none", <<>>)}

\* The answers the lifecycle is driven with, one for each way the loop of
\* load_key ends: a key after one or two prompts with and without a keyring,
\* no key (aborted, three wrong answers), and a keyring that fails to store.
AskKeys ==
    {KeyInput("encrypted", "ok", <<"right">>),
     KeyInput("encrypted", "ok", <<"abort">>),
     KeyInput("encrypted", "none", <<"wrong", "right">>),
     KeyInput("encrypted", "locked", <<"wrong", "wrong", "wrong">>),
     KeyInput("encrypted", "seterr", <<"right">>)}

TunnelInput(fwd, gw, busy, saveok) ==
    [fwd |-> fwd, gw |-> gw, busy |-> busy, saveok |-> saveok]

NoTunnelInput == TunnelInput(<<>>, FALSE, {}, TRUE)

\* busy: the ports among the forwardings that another process holds.
TunnelInputs ==
    {TunnelInput(<<>>, FALSE, {}, TRUE)}
    \cup {TunnelInput(f, FALSE, {}, TRUE) : f \in FwdLists \ {<<>>}}
    \cup UNION {{TunnelInput(f, TRUE, b, TRUE) : b \in SUBSET (Range(f) \ Held)} :
                f \in FwdLists \ {<<>>}}
    \cup UNION {{TunnelInput(f, TRUE, b, FALSE) :
                    b \in (SUBSET (Range(f) \ Held)) \ {Range(f) \ Held}} :
                f \in FwdLists \ {<<>>}}

StartInput(errs, valid, key, tun) ==
    [errs |-> errs, valid |-> valid, key |-> key, tun |-> tun]

NoInput == StartInput(FALSE, TRUE, NoKeyInput, NoTunnelInput)

\* load_key opens a PasswordDialog for this key file.
Prompts(k) == k.kind = "encrypted" /\ ~CacheDecrypts(k.kind, k.backend, keyring)

\* load_key returns a key without a PasswordDialog.
KeyLoads(k) == ~Prompts(k) /\ load_key(k.kind, k.backend, keyring, k.script).key

\* The loop of load_key returns a key and load_key does not raise.
AskLoads(k) ==
    LET r == PromptLoop(1, k.kind, k.backend, keyring, k.script) IN r.key /\ ~r.exc

\* What the on_start waiting in PasswordDialog.ask is given from there on.
AskInputs ==
    {StartInput(FALSE, TRUE, k, NoTunnelInput) : k \in {x \in AskKeys : ~AskLoads(x)}}
    \cup {StartInput(FALSE, TRUE, k, t) :
             k \in {x \in AskKeys : AskLoads(x)}, t \in TunnelInputs}

\* What an on_start is called with.  Where BaseView.get raises there is no later
\* step, and the answers and the network are drawn with the call.
StartInputs ==
    IF connection # None THEN {NoInput}
    ELSE {StartInput(TRUE, TRUE, NoKeyInput, NoTunnelInput),
          StartInput(FALSE, FALSE, NoKeyInput, NoTunnelInput)}
         \cup {StartInput(FALSE, TRUE, k, NoTunnelInput) :
                  k \in {x \in StartKeys : ~KeyLoads(x)}}
         \cup {StartInput(FALSE, TRUE, k, t) :
                  k \in {x \in StartKeys : KeyLoads(x)}, t \in TunnelInputs}
         \cup IF BaseView_get = "TypeError"
              THEN {i \in AskInputs : Prompts(i.key)}
              ELSE {}

(***************************************************************************)
(* views.App                                                               *)
(*                                                                         *)
(* A handler runs to its end in one step, except where it waits in an      *)
(* event loop of its own that lets other handlers run: the askyesno of     *)
(* on_close (timers only, the message box holds the grab), and             *)
(* PasswordDialog.ask, which waits without a grab, so that every handler   *)
(* of the main window can run while an on_start waits for the password.    *)
(* The up to three PasswordDialogs of one load_key are answered in one     *)
(* step.                                                                   *)
(***************************************************************************)
Result(dialogs, steps, conn, fs, kr, btn, pl) ==
    [dialogs |-> dialogs, steps |-> steps, conn |-> conn, fs |-> fs, kr |-> kr,
     btn |-> btn, pl |-> pl]

\* App.save_default as on_start calls it: the dialogs it shows.
save_default(i) ==
    IF App_get(i.errs, i.valid) # "cfg" THEN <<>>
    ELSE IF i.tun.saveok THEN <<>>
    ELSE <<"error:save">>

\* on_disconnect without its call of stop().
on_disconnect_unstopped == [conn |-> None, fs |-> fwds, btn |-> "on_start"]

\* App.on_disconnect
on_disconnect_result ==
    [conn |-> None,
     fs |-> IF connection # None
            THEN [fwds EXCEPT ![connection] = Forwarder_stop(@)]
            ELSE fwds,
     btn |-> "on_start"]

\* on_start without its guard.
never_connected == FALSE

\* views.py:299, if self.connection is not None: return
already_connected == connection # None

\* on_start without its test of the key.
key_is_never_None(k) == FALSE

\* views.py:318, if key is None
key_is_None(k) == ~k.key

\* App.on_start from the return of load_key on; k is what load_key did.
on_start_connect(i, k) ==
    LET c == connect(i.tun.fwd, i.tun.gw, i.tun.busy \cup Held)
        fs == IF c.created THEN Append(fwds, c.fw) ELSE fwds
    IN  IF k.exc
        THEN Result(<<"error:traceback">>, k.steps, connection, fwds, k.stored,
                    button, polls)
        ELSE IF key_is_None(k)
        THEN Result(<<"error:key">>, k.steps, connection, fwds, k.stored, button,
                    polls)
        ELSE IF c.exc = "tunnel"
        THEN Result(<<"error:tunnel">>, k.steps \o c.steps, connection, fs,
                    k.stored, button, polls)
        ELSE IF c.exc # "none"
        THEN Result(<<"error:traceback">>, k.steps \o c.steps, connection, fs,
                    k.stored, button, polls)
        ELSE Result(save_default(i) \o <<"info:connected">>,
                    k.steps \o c.steps \o <<"save">>, Len(fs), fs, k.stored,
                    "on_disconnect", polls + 1)

\* This on_start gets as far as the first PasswordDialog of load_key.
Asks(i) ==
    /\ ~already_connected
    /\ App_get(i.errs, i.valid) = "cfg"
    /\ "pubkey" \in ConfigFields
    /\ Prompts(i.key)

\* App.on_start up to its end, or to the first PasswordDialog of load_key.
on_start_result(i) ==
    LET shown(d, s) == Result(d, s, connection, fwds, keyring, button, polls)
        g == App_get(i.errs, i.valid)
    IN  IF already_connected THEN shown(<<>>, <<>>)
        ELSE IF g = "None" THEN shown(<<"error:widget">>, <<>>)
        ELSE IF g = "TypeError" THEN shown(<<"error:traceback">>, <<>>)
        ELSE IF g = "ValueError" THEN shown(<<"error:value">>, <<>>)
        ELSE IF "pubkey" \notin ConfigFields THEN shown(<<"error:traceback">>, <<>>)
        ELSE IF Prompts(i.key) THEN shown(<<>>, CacheSteps(i.key.backend, keyring))
        ELSE on_start_connect(i, load_key(i.key.kind, i.key.backend, keyring,
                                          i.key.script))

\* The handler showed 'Successfully connected to SSH server!' (views.py:330).
Connected(l) == l.dialogs # <<>> /\ l.dialogs[Len(l.dialogs)] = "info:connected"

\* resumed: the step began in a dialog; waiting: it ended in one; afterstart: the
\* step before was an on_start that connected; released: the listeners its
\* stop() closed.
Ran(op, i, r, resumed, waiting) ==
    /\ last' = [op |-> op, afterstart |-> Connected(last), pre |-> connection,
                kr |-> keyring, inp |-> i, dialogs |-> r.dialogs,
                steps |-> r.steps, resumed |-> resumed, waiting |-> waiting,
                released |-> IF "stop" \in Range(r.steps)
                             THEN fwds[connection].listeners ELSE {}]
    /\ connection' = r.conn
    /\ fwds' = r.fs
    /\ keyring' = r.kr
    /\ button' = r.btn
    /\ polls' = r.pl

\* Start button, or Ctrl+G at any time.
on_start ==
    /\ ~destroyed
    /\ modal = "none"
    /\ \E i \in StartInputs :
          LET r == on_start_result(i)
          IN  /\ Asks(i) => Len(pending) < MaxPending
              /\ (Asks(i) \/ Len(r.fs) > Len(fwds))
                    => Len(fwds) + Len(pending) < MaxForwarders
              /\ pending' = IF Asks(i) THEN Append(pending, r.steps) ELSE pending
              /\ Ran("on_start", i, r, FALSE, Asks(i))
    /\ UNCHANGED <<keyattr, destroyed, modal>>

\* The PasswordDialogs of the innermost waiting on_start are answered, and that
\* on_start runs to its end.
PasswordDialog_ask ==
    /\ ~destroyed
    /\ modal = "none"
    /\ pending # <<>>
    /\ \E i \in AskInputs :
          LET loop == PromptLoop(1, i.key.kind, i.key.backend, keyring,
                                 i.key.script)
              k == [loop EXCEPT !.steps = pending[Len(pending)] \o @]
          IN  Ran("on_start", i, on_start_connect(i, k), TRUE, FALSE)
    /\ pending' = SubSeq(pending, 1, Len(pending) - 1)
    /\ UNCHANGED <<keyattr, destroyed, modal>>

\* App.check_connection, one pending after() callback firing.
check_connection_result ==
    LET d == on_disconnect_result
    IN  IF connection = None
        THEN Result(<<>>, <<>>, connection, fwds, keyring, button, polls - 1)
        ELSE IF fwds[connection].alive
        THEN Result(<<>>, <<>>, connection, fwds, keyring, button, polls)
        ELSE Result(<<>>, <<"on_disconnect", "stop">>, d.conn, d.fs, keyring, d.btn,
                    polls - 1)

check_connection ==
    /\ ~destroyed
    /\ polls > 0
    /\ Ran("check_connection", NoInput, check_connection_result, FALSE, FALSE)
    /\ UNCHANGED <<keyattr, destroyed, modal, pending>>

\* The Disconnect button.
on_disconnect ==
    /\ ~destroyed
    /\ modal = "none"
    /\ button = "on_disconnect"
    /\ LET d == on_disconnect_result
       IN  Ran("on_disconnect", NoInput,
               Result(<<>>,
                      IF connection # None THEN <<"on_disconnect", "stop">>
                      ELSE <<"on_disconnect">>,
                      d.conn, d.fs, keyring, d.btn, polls),
               FALSE, FALSE)
    /\ UNCHANGED <<keyattr, destroyed, modal, pending>>

\* App.on_close up to its askyesno dialog, or to destroy(), which also ends the
\* PasswordDialogs: each aborted, its on_start left without a key.
on_close ==
    /\ ~destroyed
    /\ modal = "none"
    /\ IF connection # None /\ fwds[connection].alive
       THEN /\ modal' = "askclose"
            /\ destroyed' = destroyed
            /\ pending' = pending
            /\ Ran("on_close", NoInput,
                   Result(<<"ask:close">>, <<>>, connection, fwds, keyring, button,
                          polls),
                   FALSE, TRUE)
       ELSE /\ modal' = modal
            /\ destroyed' = TRUE
            /\ pending' = <<>>
            /\ Ran("on_close", NoInput,
                   Result(<<>>, <<"destroy">>, connection, fwds, keyring, button,
                          polls),
                   FALSE, FALSE)
    /\ UNCHANGED keyattr

\* App.on_close from the answer to askyesno on.
on_close_answer ==
    /\ ~destroyed
    /\ modal = "askclose"
    /\ modal' = "none"
    /\ \E yes \in BOOLEAN :
          LET d == on_disconnect_result
          IN  IF yes
              THEN /\ destroyed' = TRUE
                   /\ pending' = <<>>
                   /\ Ran("on_close", NoInput,
                          Result(<<>>,
                                 IF connection # None
                                 THEN <<"on_disconnect", "stop", "destroy">>
                                 ELSE <<"on_disconnect", "destroy">>,
                                 d.conn, d.fs, keyring, d.btn, polls),
                          TRUE, FALSE)
              ELSE /\ destroyed' = destroyed
                   /\ pending' = pending
                   /\ Ran("on_close", NoInput,
                          Result(<<>>, <<>>, connection, fwds, keyring, button, polls),
                          TRUE, FALSE)
    /\ UNCHANGED keyattr

\* The session to the jump host is lost: is_alive turns false.
TransportLost ==
    /\ ~destroyed
    /\ \E f \in 1..Len(fwds) :
          /\ fwds[f].alive
          /\ fwds' = [fwds EXCEPT ![f].alive = FALSE, ![f].transport = FALSE]
    /\ UNCHANGED <<keyattr, keyring, connection, button, polls, destroyed, modal,
                   pending, last>>

InitApp ==
    /\ keyring \in {"none", "right", "wrong"}
    /\ connection = None
    /\ fwds = <<>>
    /\ button = "on_start"
    /\ polls = 0
    /\ destroyed = FALSE
    /\ modal = "none"
    /\ pending = <<>>
    /\ last = [op |-> "init", afterstart |-> FALSE, pre |-> None, kr |-> keyring,
               inp |-> NoInput, dialogs |-> <<>>, steps |-> <<>>,
               resumed |-> FALSE, waiting |-> FALSE, released |-> {}]

\* config.py:65 declares the key file as Config.key.
Init ==
    /\ keyattr = "key"
    /\ InitApp

\* The handlers that App can run with Config as config.py declares it.
Next ==
    \/ on_start
    \/ on_close

Spec == Init /\ [][Next]_vars

(***************************************************************************)
(* connector.load_key on its own: called with every key file, keyring      *)
(* backend and sequence of answers, on the keyring the calls before left.  *)
(***************************************************************************)
Answers == {"right", "wrong", "abort"}

\* One answer more than load_key can ask for.
LoadKeyScripts == [1..(MaxAttempts + 1) -> Answers]

LoadKeyInputs ==
    {KeyInput(kind, backend, script) :
        kind \in {"plain", "malformed", "encrypted"}, backend \in Backends,
        script \in LoadKeyScripts}

\* The call prompted for the passphrase and stored it in the keyring.
Stored(l) ==
    /\ l.op = "load_key"
    /\ l.key
    /\ l.inp.backend = "ok"
    /\ "keyring:set" \in Range(l.steps)

\* key, exc: load_key returned a key, raised; follows: the call before stored
\* the passphrase.
load_key_call ==
    /\ \E k \in LoadKeyInputs :
          LET r == load_key(k.kind, k.backend, keyring, k.script)
          IN  /\ last' = [op |-> "load_key", kr |-> keyring, inp |-> k,
                          steps |-> r.steps, key |-> r.key, exc |-> r.exc,
                          follows |-> Stored(last)]
              /\ keyring' = r.stored
    /\ UNCHANGED <<keyattr, connection, fwds, button, polls, destroyed, modal,
                   pending>>

NextLoadKey == load_key_call

SpecLoadKey == Init /\ [][NextLoadKey]_vars

(***************************************************************************)
(* config.py.  A str is the sequence of its characters.                    *)
(***************************************************************************)
Digits == <<"0", "1", "2", "3", "4", "5", "6", "7", "8", "9">>

IsDigit(c) == c \in Range(Digits)

\* f'{n}'
RECURSIVE IntToTxt(_)
IntToTxt(n) ==
    IF n < 0 THEN <<"-">> \o IntToTxt(-n)
    ELSE IF n < 10 THEN <<Digits[n + 1]>>
    ELSE IntToTxt(n \div 10) \o <<Digits[(n % 10) + 1]>>

\* The value of a str of digits.
RECURSIVE DigitsValue(_)
DigitsValue(t) ==
    IF t = <<>> THEN 0
    ELSE 10 * DigitsValue(SubSeq(t, 1, Len(t) - 1))
         + (CHOOSE d \in 0..9 : Digits[d + 1] = t[Len(t)])

\* int(t)
TxtToInt(t) ==
    LET neg == t # <<>> /\ t[1] = "-"
        body == IF neg THEN SubSeq(t, 2, Len(t)) ELSE t
    IN  IF body = <<>> \/ \E i \in 1..Len(body) : ~IsDigit(body[i])
        THEN [exc |-> "ValueError", val |-> 0]
        ELSE [exc |-> "none",
              val |-> IF neg THEN 0 - DigitsValue(body) ELSE DigitsValue(body)]

\* t.split(sep, maxsplit)
RECURSIVE Split(_, _, _)
Split(t, sep, maxsplit) ==
    IF maxsplit = 0 \/ \A i \in 1..Len(t) : t[i] # sep THEN <<t>>
    ELSE LET i == CHOOSE i \in 1..Len(t) :
                     t[i] = sep /\ \A j \in 1..(i - 1) : t[j] # sep
         IN  <<SubSeq(t, 1, i - 1)>>
             \o Split(SubSeq(t, i + 1, Len(t)), sep, maxsplit - 1)

\* Where a match of IPV4PAT from its g-th group on, begun at position p of t,
\* can end: the position after its last character.
RECURSIVE QuadEnds(_, _, _)
QuadEnds(t, p, g) ==
    UNION {IF g = 4 THEN {p + n}
           ELSE IF p + n <= Len(t) /\ t[p + n] = "."
           THEN QuadEnds(t, p + n + 1, g + 1)
           ELSE {} :
           n \in {m \in 1..3 :
                    \A k \in 0..(m - 1) : p + k <= Len(t) /\ IsDigit(t[p + k])}}

\* IPV4PAT.search(t)
IPV4PAT_search(t) == \E p \in 1..Len(t) : QuadEnds(t, p, 1) # {}

\* IPV4PAT.fullmatch(t)
IPV4PAT_fullmatch(t) == (Len(t) + 1) \in QuadEnds(t, 1, 1)

\* config.is_hostname: "ok", or the exception it raises.
is_hostname(value) ==
    IF value = <<>> THEN "ValueError"
    ELSE IF IPV4PAT_search(value)
    THEN IF ~IPV4PAT_fullmatch(value) THEN "ValueError"
         ELSE IF \E i \in 1..4 :
                    TxtToInt(Split(value, ".", -1)[i]).val \notin 0..255
         THEN "ValueError"
         ELSE "ok"
    ELSE "ok"

\* config.is_port
is_port(value) == IF 0 <= value /\ value <= 65535 THEN "ok" ELSE "ValueError"

Letters == {"a", "b", "h", "k", "s", "u", "w"}

\* t.isalnum()
isalnum(t) == t # <<>> /\ \A i \in 1..Len(t) : IsDigit(t[i]) \/ t[i] \in Letters

\* t.isprintable()
isprintable(t) == \A i \in 1..Len(t) : t[i] # "\t"

\* The dataclass config.ForwardedPort
ForwardedPort(local_port, hostname, remote_port, label) ==
    [local_port |-> local_port, hostname |-> hostname,
     remote_port |-> remote_port, label |-> label]

\* ForwardedPort.validate: "ok", or the exception it raises.
ForwardedPort_validate(f) ==
    IF is_hostname(f.hostname) # "ok" THEN "ValueError"
    ELSE IF is_port(f.remote_port) # "ok" THEN "ValueError"
    ELSE IF is_port(f.local_port) # "ok" THEN "ValueError"
    ELSE IF f.label # <<>> /\ ~isprintable(f.label) THEN "ValueError"
    ELSE "ok"

\* ForwardedPort.__str__
ForwardedPort_str(f) ==
    IntToTxt(f.local_port) \o <<":">> \o f.hostname \o <<":">>
    \o IntToTxt(f.remote_port)

\* The dataclass config.Config; key is <<>> for None, else <<the path>>.
Config(jump_host, username, jump_port, key, forwardings) ==
    [jump_host |-> jump_host, username |-> username, jump_port |-> jump_port,
     key |-> key, forwardings |-> forwardings]

\* os.path.isfile(expandpath(path)): the key files that exist.
isfile(path) == path = <<"k">>

\* Config.validate: "ok", or the exception it raises.
Config_validate(cfg) ==
    IF is_hostname(cfg.jump_host) # "ok" THEN "ValueError"
    ELSE IF is_port(cfg.jump_port) # "ok" THEN "ValueError"
    ELSE IF cfg.username # <<>> /\ ~isalnum(cfg.username) THEN "ValueError"
    ELSE IF cfg.key # <<>> /\ ~isfile(cfg.key[1]) THEN "ValueError"
    ELSE "ok"

\* The concatenation of the strs of a sequence, each after the prefix pre.
RECURSIVE Join(_, _)
Join(pre, ts) ==
    IF ts = <<>> THEN <<>> ELSE pre \o ts[1] \o Join(pre, SubSeq(ts, 2, Len(ts)))

\* Config.__str__
Config_str(cfg) ==
    <<"s", "s", "h", " ">>
    \o (IF cfg.username # <<>> THEN cfg.username \o <<"@">> ELSE <<>>)
    \o cfg.jump_host
    \o (IF cfg.jump_port # 22
        THEN <<" ", "-", "p", " ">> \o IntToTxt(cfg.jump_port) ELSE <<>>)
    \o (IF cfg.key # <<>> /\ cfg.key[1] # <<>>
        THEN <<" ", "-", "i", " ">> \o cfg.key[1] ELSE <<>>)
    \o Join(<<" ", "-", "L", " ">>,
            [i \in 1..Len(cfg.forwardings) |-> ForwardedPort_str(cfg.forwardings[i])])
    \o <<" ", "-", "N">>

\* shlex.split(cmd, posix=False) of a command line without quotes.
RECURSIVE shlex_split(_)
shlex_split(cmd) ==
    LET parts == Split(cmd, " ", 1)
        rest == IF Len(parts) = 2 THEN shlex_split(parts[2]) ELSE <<>>
    IN  IF parts[1] = <<>> THEN rest ELSE <<parts[1]>> \o rest

\* argparse takes the token for an option, not for an argument.
OptionLike(tok) == tok # <<>> /\ tok[1] = "-" /\ TxtToInt(tok).exc # "none"

\* parser.parse_known_args of from_cmd from the k-th token on; a: the
\* namespace so far, pos its positionals, L unset (None) until the first -L,
\* err the parser's error exit.
RECURSIVE parse_known_args(_, _, _)
parse_known_args(tokens, k, a) ==
    IF k > Len(tokens) THEN [a EXCEPT !.err = @ \/ Len(a.pos) < 2]
    ELSE LET tok == tokens[k]
             arg == k + 1 <= Len(tokens) /\ ~OptionLike(tokens[k + 1])
             failed == [a EXCEPT !.err = TRUE]
         IN  IF tok = <<"-", "N">> THEN parse_known_args(tokens, k + 1, a)
             ELSE IF tok \in {<<"-", "p">>, <<"-", "i">>, <<"-", "L">>} /\ ~arg
             THEN failed
             ELSE IF tok = <<"-", "p">>
             THEN IF TxtToInt(tokens[k + 1]).exc # "none" THEN failed
                  ELSE parse_known_args(tokens, k + 2,
                           [a EXCEPT !.p = TxtToInt(tokens[k + 1]).val])
             ELSE IF tok = <<"-", "i">>
             THEN parse_known_args(tokens, k + 2, [a EXCEPT !.i = <<tokens[k + 1]>>])
             ELSE IF tok = <<"-", "L">>
             THEN parse_known_args(tokens, k + 2,
                      [a EXCEPT !.L = Append(@, tokens[k + 1]), !.Lset = TRUE])
             ELSE IF OptionLike(tok) THEN parse_known_args(tokens, k + 1, a)
             ELSE parse_known_args(tokens, k + 1, [a EXCEPT !.pos = Append(@, tok)])

\* The ForwardedPort from_cmd makes of one -L argument.
from_cmd_forwarding(f) ==
    LET parts == Split(f, ":", 2)
    IN  IF Len(parts) # 3 \/ TxtToInt(parts[1]).exc # "none"
           \/ TxtToInt(parts[3]).exc # "none"
        THEN [exc |-> "ValueError", fw |-> ForwardedPort(0, <<>>, 0, <<>>)]
        ELSE [exc |-> "none",
              fw |-> ForwardedPort(TxtToInt(parts[1]).val, parts[2],
                                   TxtToInt(parts[3]).val, <<>>)]

\* Config.from_cmd: the exception it raises, or "none" and the Config.
from_cmd(cmd) ==
    LET args == parse_known_args(shlex_split(cmd), 1,
                    [pos |-> <<>>, i |-> <<>>, L |-> <<>>, Lset |-> FALSE,
                     p |-> 22, err |-> FALSE])
        user_host == args.pos[2]
        split == Split(user_host, "@", 1)
        username == IF Len(split) = 2 THEN split[1] ELSE <<>>
        jump_host == IF Len(split) = 2 THEN split[2] ELSE user_host
        made == [i \in 1..Len(args.L) |-> from_cmd_forwarding(args.L[i])]
        instance == Config(jump_host, username, args.p, args.i,
                           [i \in 1..Len(made) |-> made[i].fw])
        raised(exc) == [exc |-> exc, cfg |-> Config(<<>>, <<>>, 22, <<>>, <<>>)]
    IN  IF args.err THEN raised("SystemExit")
        ELSE IF ~args.Lset THEN raised("TypeError")
        ELSE IF \E i \in 1..Len(made) : made[i].exc # "none" THEN raised("ValueError")
        ELSE IF Config_validate(instance) # "ok" THEN raised("ValueError")
        ELSE [exc |-> "none", cfg |-> instance]

(***************************************************************************)
(* The functions of config.py on their own: each applied once to what Init *)
(* draws, a Config or a host name.                                         *)
(***************************************************************************)
\* The host names is_hostname is called with.
HostChars == {"3", ".", "a"}

Hostnames == UNION {[1..n -> HostChars] : n \in 0..MaxHostLen}

\* The forwardings of a Config: ports inside and outside 0..65535, a host
\* name, no host name and an IPv4 address, without and with a label.
ForwardedPorts ==
    {ForwardedPort(l, h, r, b) :
        l \in {1, 65536},
        h \in {<<"a">>, <<>>, <<"3", ".", "3", ".", "3", ".", "3">>},
        r \in {80, -1},
        b \in {<<>>, <<"w">>}}

Configs ==
    {Config(h, u, p, k, f) :
        h \in {<<"h">>, <<>>},
        u \in {<<>>, <<"u">>},
        p \in {22, 80},
        k \in {<<>>, <<(<<"k">>)>>},
        f \in UNION {[1..n -> ForwardedPorts] : n \in 0..MaxFwd}}

InitConfig ==
    /\ keyattr = "key"
    /\ keyring = "none"
    /\ connection = None
    /\ fwds = <<>>
    /\ button = "on_start"
    /\ polls = 0
    /\ destroyed = FALSE
    /\ modal = "none"
    /\ pending = <<>>
    /\ last \in {[op |-> "Config", cfg |-> c] : c \in Configs}
               \cup {[op |-> "str", value |-> v] : v \in Hostnames}

Applied(l) ==
    /\ last' = l
    /\ UNCHANGED <<keyattr, keyring, connection, fwds, button, polls, destroyed,
                   modal, pending>>

\* cfg.validate()
validate_call ==
    /\ last.op = "Config"
    /\ Applied([op |-> "validate", cfg |-> last.cfg,
                result |-> Config_validate(last.cfg)])

\* Config.from_cmd(str(cfg))
from_cmd_call ==
    /\ last.op = "Config"
    /\ Applied([op |-> "from_cmd", cfg |-> last.cfg, cmd |-> Config_str(last.cfg),
                result |-> from_cmd(Config_str(last.cfg))])

\* is_hostname(value)
is_hostname_call ==
    /\ last.op = "str"
    /\ Applied([op |-> "is_hostname", value |-> last.value,
                result |-> is_hostname(last.value)])

NextConfig ==
    \/ validate_call
    \/ from_cmd_call
    \/ is_hostname_call

SpecConfig == InitConfig /\ [][NextConfig]_vars

\* widgets.py:96 and views.py:317 name the key file pubkey.
InitPubkey ==
    /\ keyattr = "pubkey"
    /\ InitApp

NextPubkey ==
    \/ on_start
    \/ PasswordDialog_ask
    \/ check_connection
    \/ on_disconnect
    \/ on_close
    \/ on_close_answer
    \/ TransportLost

SpecPubkey == InitPubkey /\ [][NextPubkey]_vars

\* The event loop runs the after() callbacks that are due.
SpecPubkeyLive == SpecPubkey /\ WF_vars(check_connection)

C4_StartReachesRunning ==
    (/\ last.op = "on_start"
     /\ ~last.resumed
     /\ last.pre = None
     /\ ~last.inp.errs
     /\ last.inp.valid
     /\ \/ KeyLoads(last.inp.key)
        \/ Prompts(last.inp.key) /\ last.inp.key.script # <<>>
                                 /\ AskLoads(last.inp.key)
     /\ connect(last.inp.tun.fwd, last.inp.tun.gw, last.inp.tun.busy).exc = "none") =>
        /\ connection # None
        /\ fwds[connection].started
        /\ button = "on_disconnect"
        /\ polls >= 1

Count(s, x) == Cardinality({a \in 1..Len(s) : s[a] = x})

\* The call of load_key got as far as its loop of PasswordDialogs.
Prompted(l) ==
    /\ l.op = "load_key"
    /\ l.inp.kind = "encrypted"
    /\ ~CacheDecrypts(l.inp.kind, l.inp.backend, l.kr)

\* C12: a load_key of an encrypted key file that the secret of the keyring does
\* not decrypt, answered with three wrong passphrases, returns no key, has shown
\* exactly three PasswordDialogs whatever a fourth answer would have been, and
\* has written nothing to the keyring.
C12_ThreeWrongPassphrases ==
    (/\ Prompted(last)
     /\ \A a \in 1..3 : last.inp.script[a] = "wrong") =>
        /\ ~last.key
        /\ ~last.exc
        /\ Count(last.steps, "prompt") = 3
        /\ Count(last.steps, "keyring:set") = 0
        /\ keyring = last.kr

C12_FourthAnswerNotAsked ==
    /\ Prompted(last)
    /\ \A a \in 1..3 : last.inp.script[a] = "wrong"
    /\ last.inp.script[4] = "right"
    /\ Count(last.steps, "prompt") = 3
    /\ ~last.key

\* C13: a load_key of an encrypted key file with a working keyring that holds
\* no secret, answered wrong and then right, returns the key after exactly two
\* PasswordDialogs and leaves the right passphrase in the keyring; and a
\* load_key of the key file that follows one which stored the passphrase
\* returns the key without a PasswordDialog.
C13_SecondAnswerCached ==
    /\ (/\ Prompted(last)
        /\ last.inp.backend = "ok"
        /\ last.kr = "none"
        /\ last.inp.script[1] = "wrong"
        /\ last.inp.script[2] = "right") =>
           /\ last.key
           /\ ~last.exc
           /\ Count(last.steps, "prompt") = 2
           /\ Count(last.steps, "keyring:set") = 1
           /\ keyring = "right"
           /\ Stored(last)
    /\ (/\ last.op = "load_key"
        /\ last.follows
        /\ last.inp.kind = "encrypted"
        /\ last.inp.backend = "ok") =>
           /\ last.key
           /\ ~last.exc
           /\ Count(last.steps, "prompt") = 0
           /\ keyring = "right"

C13_LoadedFromKeyring ==
    /\ last.op = "load_key"
    /\ last.follows
    /\ last.inp.kind = "encrypted"
    /\ last.inp.backend = "ok"
    /\ last.key
    /\ Count(last.steps, "prompt") = 0

\* C14: a load_key whose i-th PasswordDialog is aborted, after i - 1 wrong
\* answers, returns no key without raising, has shown exactly i dialogs and
\* tried exactly the i - 1 answers before it on the key file, and has written
\* nothing to the keyring.
C14_AbortEndsLoadKey ==
    \A i \in 1..MaxAttempts :
        (/\ Prompted(last)
         /\ \A a \in 1..(i - 1) : last.inp.script[a] = "wrong"
         /\ last.inp.script[i] = "abort") =>
            /\ ~last.key
            /\ ~last.exc
            /\ Count(last.steps, "prompt") = i
            /\ Count(last.steps, "key:decrypt") =
                  Count(CacheSteps(last.inp.backend, last.kr), "key:decrypt") + i - 1
            /\ last.steps[Len(last.steps)] = "prompt"
            /\ Count(last.steps, "keyring:set") = 0
            /\ keyring = last.kr

C14_AbortedBeforeRightAnswer ==
    /\ Prompted(last)
    /\ last.inp.script = <<"wrong", "abort", "right", "right">>
    /\ Count(last.steps, "prompt") = 2
    /\ ~last.key

\* C15: a load_key of a key file that does not parse as a key returns no key
\* without raising after the one attempt to parse it: the keyring is not
\* queried and no PasswordDialog is shown.
C15_MalformedKeyEndsLoadKey ==
    (last.op = "load_key" /\ last.inp.kind = "malformed") =>
        /\ ~last.key
        /\ ~last.exc
        /\ last.steps = <<"key:parse">>
        /\ keyring = last.kr

C15_MalformedWithSecretAndAnswer ==
    /\ last.op = "load_key"
    /\ last.inp.kind = "malformed"
    /\ last.inp.backend = "ok"
    /\ last.kr = "right"
    /\ last.inp.script[1] = "right"
    /\ ~last.key

\* C16: a load_key whose PasswordDialog was answered with the passphrase that
\* decrypts the key file returns the key and does not raise, whatever
\* set_password does with the passphrase.
C16_StoreFailureSwallowed ==
    (/\ Prompted(last)
     /\ \E i \in 1..MaxAttempts :
           /\ last.inp.script[i] = "right"
           /\ \A a \in 1..(i - 1) : last.inp.script[a] = "wrong") =>
        /\ last.key
        /\ ~last.exc

\* Why a load_key of key file k on a keyring holding stored returns no key.
Cause(k, stored) ==
    IF k.kind = "malformed" THEN "InvalidKeyFormat"
    ELSE IF k.kind = "plain" \/ CacheDecrypts(k.kind, k.backend, stored) THEN "none"
    ELSE IF \A a \in 1..MaxAttempts : k.script[a] = "wrong" THEN "AuthExhausted"
    ELSE IF \E i \in 1..MaxAttempts :
               /\ k.script[i] = "abort"
               /\ \A a \in 1..(i - 1) : k.script[a] = "wrong"
    THEN "UserAborted"
    ELSE "none"

\* C17: a load_key that fails for one of the causes malformed key file,
\* aborted PasswordDialog and three wrong passphrases ends differently from
\* every load_key that fails for another of them: what it returns or raises
\* tells its caller the cause.
C17_CausesToldApart ==
    (last.op = "load_key" /\ Cause(last.inp, last.kr) # "none") =>
        \A k \in LoadKeyInputs :
            LET r == load_key(k.kind, k.backend, last.kr, k.script)
            IN  Cause(k, last.kr) \notin {"none", Cause(last.inp, last.kr)} =>
                   <<r.key, r.exc>> # <<last.key, last.exc>>

\* The PasswordDialogs a full loop of load_key shows for these answers.
PromptsOf(script) ==
    IF \E i \in 1..MaxAttempts : script[i] # "wrong"
    THEN CHOOSE i \in 1..MaxAttempts :
            /\ script[i] # "wrong"
            /\ \A a \in 1..(i - 1) : script[a] = "wrong"
    ELSE MaxAttempts

\* C20: a load_key of an encrypted key file returns the key without a
\* PasswordDialog and without writing to the keyring when the keyring returns
\* the right passphrase; and when the keyring returns no secret or a wrong one,
\* has no backend or is locked, load_key does not raise for it and runs its
\* loop of PasswordDialogs from the first attempt, a right third answer still
\* giving the key.
C20_CachedSecretStep ==
    (last.op = "load_key" /\ last.inp.kind = "encrypted") =>
        LET got == get_password(last.inp.backend, last.kr)
        IN  /\ got = "right" =>
                  /\ last.key
                  /\ ~last.exc
                  /\ Count(last.steps, "prompt") = 0
                  /\ Count(last.steps, "keyring:set") = 0
                  /\ keyring = last.kr
            /\ got \in {"none", "wrong", "NoKeyringError", "KeyringLocked"} =>
                  /\ Count(last.steps, "prompt") = PromptsOf(last.inp.script)
                  /\ (/\ \A a \in 1..(MaxAttempts - 1) : last.inp.script[a] = "wrong"
                      /\ last.inp.script[MaxAttempts] = "right"
                      /\ last.inp.backend # "seterr") =>
                         last.key /\ ~last.exc

C20_StaleSecretThirdAnswer ==
    /\ last.op = "load_key"
    /\ last.inp.kind = "encrypted"
    /\ last.inp.backend = "ok"
    /\ last.kr = "wrong"
    /\ Count(last.steps, "prompt") = MaxAttempts
    /\ last.key
    /\ keyring = "right"

\* C21: Config.validate raises ValueError for a Config one of whose forwardings
\* has a local_port or remote_port outside 0..65535 or a hostname that
\* is_hostname rejects, the empty one included.
C21_ForwardingsValidated ==
    (/\ last.op = "validate"
     /\ \E i \in 1..Len(last.cfg.forwardings) :
           LET f == last.cfg.forwardings[i]
           IN  \/ f.local_port \notin 0..65535
               \/ f.remote_port \notin 0..65535
               \/ is_hostname(f.hostname) # "ok") =>
        last.result = "ValueError"

ValidConfig(cfg) ==
    /\ Config_validate(cfg) = "ok"
    /\ \A i \in 1..Len(cfg.forwardings) :
          ForwardedPort_validate(cfg.forwardings[i]) = "ok"

\* C24: for a valid Config, Config.from_cmd(str(cfg)) does not raise and
\* returns a Config with the jump_host, username and jump_port of cfg and with
\* the local_port, hostname and remote_port of its forwardings, in order.
C24_CommandRoundTrip ==
    (last.op = "from_cmd" /\ ValidConfig(last.cfg)) =>
        /\ last.result.exc = "none"
        /\ last.result.cfg.jump_host = last.cfg.jump_host
        /\ last.result.cfg.username = last.cfg.username
        /\ last.result.cfg.jump_port = last.cfg.jump_port
        /\ Len(last.result.cfg.forwardings) = Len(last.cfg.forwardings)
        /\ \A i \in 1..Len(last.cfg.forwardings) :
              LET a == last.cfg.forwardings[i]
                  b == last.result.cfg.forwardings[i]
              IN  /\ b.local_port = a.local_port
                  /\ b.hostname = a.hostname
                  /\ b.remote_port = a.remote_port

\* The labels of a name: what stands between its dots.
Labels(t) == Split(t, ".", -1)

\* Four labels of one to three digits each.
DottedQuad(t) ==
    /\ Len(Labels(t)) = 4
    /\ \A i \in 1..4 :
          /\ Len(Labels(t)[i]) \in 1..3
          /\ \A k \in 1..Len(Labels(t)[i]) : IsDigit(Labels(t)[i][k])

\* A non-empty name of non-empty labels of letters and digits.
HostnameSyntax(t) ==
    /\ t # <<>>
    /\ \A i \in 1..Len(Labels(t)) : isalnum(Labels(t)[i])

\* C25: is_hostname raises for the empty string and for a dotted quad with an
\* octet above 255, accepts a dotted quad with every octet in 0..255, and
\* accepts every non-empty hostname that is not a dotted quad, also one that
\* contains a dotted quad.
C25_HostnameOrIPv4 ==
    last.op = "is_hostname" =>
        LET v == last.value
            octet(i) == TxtToInt(Labels(v)[i]).val
        IN  /\ v = <<>> => last.result = "ValueError"
            /\ (DottedQuad(v) /\ \E i \in 1..4 : octet(i) > 255) =>
                  last.result = "ValueError"
            /\ (DottedQuad(v) /\ \A i \in 1..4 : octet(i) <= 255) =>
                  last.result = "ok"
            /\ (HostnameSyntax(v) /\ ~DottedQuad(v)) => last.result = "ok"

====
